---- MODULE Spec2Model ----
(***************************************************************************)
(* A model of the A/B-test analyzer of src/ABAnalyzer.py and of the        *)
(* loader of src/S3ToRedshift.py and src/S3ToRedshiftUtil.py.              *)
(*                                                                         *)
(* Numbers.  A probability is an exact rational [n, d].  A value computed  *)
(* by numpy is a float: finite (an exact rational), +inf or NaN, with      *)
(* numpy's rules for division by zero (x/0 = inf, 0/0 = NaN, 0*inf = NaN,  *)
(* no exception).  A value obtained through a square root (sHat, z, the    *)
(* confidence radius) is kept as a sign and the exact rational under the   *)
(* root.  The normal CDF and its inverse are the library's tables, the CDF   *)
(* read to four decimals and its inverse to two.                           *)
(***************************************************************************)
EXTENDS Integers, Sequences, FiniteSets

\* ------------------------------------------------------------------ bounds

\* Longest dataset given to the analyzer at construction.
MaxRows == 3

\* Largest population of a row of a category slice handed to a statistic.
MaxPop == 2

\* Most rows a dataset holds for one (category, variation) pair.
MaxCopies == 3

\* ------------------------------------------------------- exact rationals

RECURSIVE GCD(_, _)
GCD(a, b) == IF b = 0 THEN a ELSE GCD(b, a % b)

AbsInt(x) == IF x < 0 THEN -x ELSE x

\* The rational n/d (d # 0) in lowest terms with a positive denominator.
Rat(n, d) ==
    LET g == GCD(AbsInt(n), AbsInt(d))
        s == IF d < 0 THEN -1 ELSE 1
    IN  [n |-> (s * n) \div g, d |-> (s * d) \div g]

RAdd(x, y) == Rat(x.n * y.d + y.n * x.d, x.d * y.d)
RSub(x, y) == Rat(x.n * y.d - y.n * x.d, x.d * y.d)
\* x * y, the common factors taken out before the products are formed.
RMul(x, y) ==
    LET g == GCD(AbsInt(x.n), y.d)
        h == GCD(AbsInt(y.n), x.d)
    IN  Rat((x.n \div g) * (y.n \div h), (x.d \div h) * (y.d \div g))
RLess(x, y) == x.n * y.d < y.n * x.d
RLeq(x, y) == x.n * y.d <= y.n * x.d

\* ------------------------------------------------------------ numpy floats

Fin(r) == [k |-> "fin", n |-> r.n, d |-> r.d]
FInt(i) == [k |-> "fin", n |-> i, d |-> 1]
Inf == [k |-> "inf", n |-> 0, d |-> 1]
NaN == [k |-> "nan", n |-> 0, d |-> 1]
RatOf(x) == [n |-> x.n, d |-> x.d]

\* x + y, x and y not negative.
FAdd(x, y) ==
    IF x.k = "nan" \/ y.k = "nan" THEN NaN
    ELSE IF x.k = "inf" \/ y.k = "inf" THEN Inf
    ELSE Fin(RAdd(RatOf(x), RatOf(y)))

\* x - y, x and y finite or NaN.
FSub(x, y) ==
    IF x.k = "nan" \/ y.k = "nan" THEN NaN
    ELSE Fin(RSub(RatOf(x), RatOf(y)))

\* x * y, x and y not negative: 0 * inf is NaN.
FMul(x, y) ==
    IF x.k = "nan" \/ y.k = "nan" THEN NaN
    ELSE IF x.k = "inf" \/ y.k = "inf"
         THEN IF (x.k = "fin" /\ x.n = 0) \/ (y.k = "fin" /\ y.n = 0)
              THEN NaN ELSE Inf
    ELSE Fin(RMul(RatOf(x), RatOf(y)))

\* x / y, x and y finite or NaN and not negative: numpy divides by zero
\* without raising, x/0 is inf and 0/0 is NaN.
FDiv(x, y) ==
    IF x.k = "nan" \/ y.k = "nan" THEN NaN
    ELSE IF y.n = 0 THEN (IF x.n = 0 THEN NaN ELSE Inf)
    ELSE Fin(Rat(x.n * y.d, x.d * y.n))

\* --------------------------------------------------------- rooted values
\* [k, sg, n, d] is sg * sqrt(n/d) when k = "fin", sg in {-1, 0, 1}.

RootNaN == [k |-> "nan", sg |-> 0, n |-> 0, d |-> 1]
RootInf == [k |-> "inf", sg |-> 1, n |-> 0, d |-> 1]
RootFin(sg, r) ==
    [k |-> "fin", sg |-> (IF r.n = 0 THEN 0 ELSE sg), n |-> r.n, d |-> r.d]

\* x ** 0.5 of a float that is not negative.
Sqrt(x) ==
    IF x.k = "nan" THEN RootNaN
    ELSE IF x.k = "inf" THEN RootInf
    ELSE RootFin(1, RatOf(x))

SignOf(i) == IF i < 0 THEN -1 ELSE IF i = 0 THEN 0 ELSE 1

\* x / s for a finite float x and a root s that is not negative.
DivByRoot(x, s) ==
    IF x.k = "nan" \/ s.k = "nan" THEN RootNaN
    ELSE IF s.k = "inf" THEN RootFin(0, Rat(0, 1))
    ELSE IF s.n = 0
         THEN (IF x.n = 0 THEN RootNaN
               ELSE [RootInf EXCEPT !.sg = SignOf(x.n)])
    ELSE RootFin(SignOf(x.n), Rat(x.n * x.n * s.d, x.d * x.d * s.n))

\* np.absolute
Absolute(z) == IF z.k = "nan" THEN z ELSE [z EXCEPT !.sg = AbsInt(z.sg)]

\* q * s for a positive rational q and a root s that is not negative.
ScaleRootUnscaled(q, s) == s
ScaleRoot(q, s) ==
    IF s.k = "fin" THEN RootFin(s.sg, RMul(RMul(q, q), [n |-> s.n, d |-> s.d]))
    ELSE s

\* a < b for roots that are finite and not negative, the common factors
\* taken out before the products are formed.
RootLess(a, b) ==
    LET g == IF a.n = 0 /\ b.n = 0 THEN 1 ELSE GCD(a.n, b.n)
        h == GCD(a.d, b.d)
    IN  (a.n \div g) * (b.d \div h) < (b.n \div g) * (a.d \div h)

\* ------------------------------------------------- scipy.stats.norm tables

\* The table's denominator: its entries are ten-thousandths.
PhiScale == 10000

\* norm.cdf at z = 0.0, 0.1, ..., 4.0, in ten-thousandths.
PhiTable ==
    << 5000, 5398, 5793, 6179, 6554, 6915, 7257, 7580, 7881, 8159,
       8413, 8643, 8849, 9032, 9192, 9332, 9452, 9554, 9641, 9713,
       9772, 9821, 9861, 9893, 9918, 9938, 9953, 9965, 9974, 9981,
       9987, 9990, 9993, 9995, 9997, 9998, 9998, 9999, 9999, 10000,
       10000 >>

\* The largest k in 0..40 with k/10 <= sqrt(n/d): the table row of |z|.
PhiRow(z) ==
    CHOOSE k \in 0..(Len(PhiTable) - 1) :
        /\ k * k * z.d <= 100 * z.n
        /\ (k = Len(PhiTable) - 1 \/ (k + 1) * (k + 1) * z.d > 100 * z.n)

\* stats.norm.cdf(z): NaN for NaN, 1 for +inf, 0 for -inf, 1 - cdf(-z) for
\* a negative z.
NormCdf(z) ==
    IF z.k = "nan" THEN NaN
    ELSE IF z.k = "inf" THEN (IF z.sg < 0 THEN FInt(0) ELSE FInt(1))
    ELSE LET t == PhiTable[PhiRow(z) + 1]
         IN  IF z.sg < 0 THEN Fin(Rat(PhiScale - t, PhiScale))
             ELSE Fin(Rat(t, PhiScale))

\* The confidence levels whose ppf is tabulated below, and the ones an
\* analyzer is constructed with.
TabulatedLevels == {Rat(4, 5), Rat(9, 10), Rat(19, 20), Rat(99, 100)}
ConfidenceLevels == {Rat(9, 10), Rat(19, 20)}

\* stats.norm.ppf(a) at the a of the confidence levels 0.8, 0.9, 0.95 and
\* 0.99 (a = 0.9, 0.95, 0.975, 0.995), to two decimals (1.28, 1.64, 1.96,
\* 2.58): a positive rational.
NormPpf(a) ==
    CASE a = Rat(9, 10) -> Rat(32, 25)
      [] a = Rat(19, 20) -> Rat(41, 25)
      [] a = Rat(39, 40) -> Rat(49, 25)
      [] a = Rat(199, 200) -> Rat(129, 50)

\* a = 1 - (1 - confidenceInterval)/2
TailPoint(confidence) ==
    RSub(Rat(1, 1), RMul(RSub(Rat(1, 1), confidence), Rat(1, 2)))

\* ------------------------------------------------------- category slices
\* A slice (varDf) is a sequence of rows [p, variation, population].

\* df.variation.unique(): the values in order of first appearance.
RECURSIVE UniqueOf(_)
UniqueOf(s) ==
    IF s = << >> THEN << >>
    ELSE LET front == UniqueOf(SubSeq(s, 1, Len(s) - 1))
             last == s[Len(s)]
         IN  IF \E j \in 1..Len(front) : front[j] = last
             THEN front ELSE Append(front, last)

VariationColumn(df) == [j \in 1..Len(df) |-> df[j].variation]

\* df.loc[df.variation == variation, ...]: the row of the variation. A slice
\* holds one row for each of its variations, so the selected array has one
\* element.
RowOf(df, variation) ==
    df[CHOOSE j \in 1..Len(df) :
          /\ df[j].variation = variation
          /\ \A h \in 1..(j - 1) : df[h].variation # variation]

\* pHat = (n[0]*p[0] + n[1]*p[1])/(n[0] + n[1])
PooledRate(p0, n0, p1, n1) ==
    FDiv(FAdd(FMul(FInt(n0), Fin(p0)), FMul(FInt(n1), Fin(p1))),
         FInt(n0 + n1))

\* sHat2 = pHat*(1 - pHat)*(1.0/n[0] + 1.0/n[1])
PooledVariance(pHat, n0, n1) ==
    FMul(FMul(pHat, FSub(FInt(1), pHat)),
         FAdd(FDiv(FInt(1), FInt(n0)), FDiv(FInt(1), FInt(n1))))

\* significance = 1 - (1 - significance)*2
TwoSidedAdjustHalved(significance) ==
    FSub(FInt(1), FMul(FSub(FInt(1), significance), Fin(Rat(1, 2))))
TwoSidedAdjust(significance) ==
    FSub(FInt(1), FMul(FSub(FInt(1), significance), FInt(2)))

\* z = np.absolute((p[0] - p[1])/sHat)
ZStatisticNoAbs(p0, p1, sHat) == DivByRoot(FSub(Fin(p0), Fin(p1)), sHat)
ZStatistic(p0, p1, sHat) ==
    Absolute(DivByRoot(FSub(Fin(p0), Fin(p1)), sHat))

IndexError == [err |-> "IndexError"]
ValueError == [err |-> "ValueError"]

\* The number of rows of df of one variation: the length of the arrays
\* p[k] and n[k] selected for it.
CountOf(df, variation) ==
    Len(SelectSeq(df, LAMBDA r : r.variation = variation))

\* numpy's arithmetic on two arrays of lengths k0 and k1 works element by
\* element when the lengths agree or one of them is 1, and raises ValueError
\* otherwise; the result has the length of the longer, or of the other when
\* one is 1.
Broadcastable(k0, k1) == k0 = k1 \/ k0 = 1 \/ k1 = 1
BroadcastLen(k0, k1) == IF k0 = 1 THEN k1 ELSE k0

\* SignificanceTest: its local values when it returns. The first two names
\* of the slice's variations are compared; p[1] of a slice with one
\* variation raises IndexError. The values are those of element 0 of the
\* arrays, the one the caller reads.
SignificanceLocals(varDf, twoSided) ==
    LET variationNames == UniqueOf(VariationColumn(varDf))
    IN  IF Len(variationNames) < 2 THEN IndexError
        ELSE IF ~Broadcastable(CountOf(varDf, variationNames[1]),
                               CountOf(varDf, variationNames[2]))
        THEN ValueError
        ELSE LET r0 == RowOf(varDf, variationNames[1])
                 r1 == RowOf(varDf, variationNames[2])
                 pHat == PooledRate(r0.p, r0.population, r1.p, r1.population)
                 sHat == Sqrt(PooledVariance(pHat, r0.population,
                                             r1.population))
                 z == ZStatistic(r0.p, r1.p, sHat)
                 significance == NormCdf(z)
             IN  [err |-> "none", pHat |-> pHat, sHat |-> sHat, z |-> z,
                  significance |-> IF twoSided
                                   THEN TwoSidedAdjust(significance)
                                   ELSE significance]

\* SignificanceTest(varDf, twoSided): the value returned, or the error.
SignificanceTest(varDf, twoSided) ==
    LET l == SignificanceLocals(varDf, twoSided)
    IN  IF l.err = "none" THEN [err |-> "none", value |-> l.significance]
        ELSE l

\* pDiff = p[1] - p[0]
PDiffReversed(p0, p1) == FSub(Fin(p0), Fin(p1))
PDiff(p0, p1) == FSub(Fin(p1), Fin(p0))

HasRow(df, variation) == \E j \in 1..Len(df) : df[j].variation = variation

\* What DifferenceMeansAndCIs returns when a variation it compares has no row
\* in df: the selected arrays are empty and so are pDiff and ci (len = 0).
EmptyEstimate ==
    [err |-> "none", len |-> 0, pDiff |-> NaN, ci |-> RootNaN]

\* DifferenceMeansAndCIs(df, variations) of an analyzer with the confidence
\* level: [pDiff, ci] for the first two names of variations, arrays of len
\* elements of which pDiff and ci here are element 0.
DifferenceMeansAndCIs(df, variations, confidence) ==
    IF Len(variations) < 2 THEN IndexError
    ELSE IF ~Broadcastable(CountOf(df, variations[1]),
                           CountOf(df, variations[2]))
    THEN ValueError
    ELSE IF ~HasRow(df, variations[1]) \/ ~HasRow(df, variations[2])
    THEN EmptyEstimate
    ELSE LET r0 == RowOf(df, variations[1])
             r1 == RowOf(df, variations[2])
             pHat == PooledRate(r0.p, r0.population, r1.p, r1.population)
             sHat == Sqrt(PooledVariance(pHat, r0.population, r1.population))
             a == TailPoint(confidence)
         IN  [err |-> "none",
              len |-> BroadcastLen(CountOf(df, variations[1]),
                                   CountOf(df, variations[2])),
              pDiff |-> PDiff(r0.p, r1.p),
              ci |-> ScaleRoot(NormPpf(a), sHat)]

\* MeansAndCIs: the [p, ci] of one variation.
MeanAndCI(df, variation, confidence) ==
    LET r == RowOf(df, variation)
        sHat == Sqrt(FDiv(FMul(Fin(r.p), FSub(FInt(1), Fin(r.p))),
                          FInt(r.population)))
        a == TailPoint(confidence)
    IN  [p |-> Fin(r.p), ci |-> ScaleRoot(NormPpf(a), sHat)]

\* MeansAndCIs(df, variations): estimatesDic, variation -> [p, ci];
\* .values[0] of a variation without a row raises IndexError.
MeansAndCIs(df, variations, confidence) ==
    IF \E j \in 1..Len(variations) : ~HasRow(df, variations[j])
    THEN IndexError
    ELSE [err |-> "none",
          estimatesDic |-> [v \in {variations[j] : j \in 1..Len(variations)}
                               |-> MeanAndCI(df, v, confidence)]]

\* ------------------------------------------------------------ the dataset
\* A dataset (self.df) is a sequence of rows
\* [variable, p, variation, population]; variable is the value of the
\* variableColumn.

Variables == {"a", "b"}
Variations == {"control", "treatment"}

VariableColumn(df) == [j \in 1..Len(df) |-> df[j].variable]

SetOf(s) == {s[j] : j \in 1..Len(s)}

MaxOf(S) == CHOOSE x \in S : \A y \in S : y <= x

\* df.loc[df.variation == variant, variableColumn].unique()
VariablesOfAnyVariation(df, variant) == UniqueOf(VariableColumn(df))
VariablesOf(df, variant) ==
    UniqueOf(VariableColumn(SelectSeq(df, LAMBDA r : r.variation = variant)))

\* [x for x in allVariables if x not in variables]
MissingAll(allVariables, variables) == allVariables
MissingVariables(allVariables, variables) ==
    SelectSeq(allVariables, LAMBDA x : x \notin SetOf(variables))

\* df.loc[df.variation == variant, 'population'].max()
PopulationOfAnyVariation(df, variant) ==
    MaxOf({df[j].population : j \in 1..Len(df)})
PopulationOf(df, variant) ==
    MaxOf({df[j].population : j \in {h \in 1..Len(df) :
                                          df[h].variation = variant}})

\* pd.DataFrame([[missingVariable, missingValue, variant, population]],
\*              columns=[variableColumn, 'p', 'variation', 'population'])
NewRow(missingVariable, missingValue, variant, population) ==
    [variable |-> missingVariable, p |-> missingValue,
     variation |-> variant, population |-> population]

\* frame.append(newRowDf, ignore_index=True): a new frame is returned and
\* the receiver keeps its rows.
FrameAppendInPlace(frame, row) ==
    [receiver |-> Append(frame, row), result |-> Append(frame, row),
     same |-> TRUE]
FrameAppend(frame, row) ==
    [receiver |-> frame, result |-> Append(frame, row), same |-> FALSE]

\* The frames of _FindMissingVariables: selfDf is what self.df holds, df what
\* the local df holds, aliased whether both name one object (df = self.df).
\* "df = df.append(...)" rebinds the local df to the frame returned.
AppendTo(st, row) ==
    LET r == FrameAppend(st.df, row)
    IN  [selfDf |-> IF st.aliased THEN r.receiver ELSE st.selfDf,
         df |-> r.result,
         aliased |-> st.aliased /\ r.same]

\* for missingVariable in missingVariables: df = df.append(newRowDf)
RECURSIVE AddZeros(_, _, _, _, _, _)
AddZeros(st, missing, missingValue, variant, population, k) ==
    IF k > Len(missing) THEN st
    ELSE AddZeros(AppendTo(st, NewRow(missing[k], missingValue, variant,
                                      population)),
                  missing, missingValue, variant, population, k + 1)

\* for variant in variations: ...
RECURSIVE FindMissingLoop(_, _, _, _, _)
FindMissingLoop(st, variations, allVariables, missingValue, j) ==
    IF j > Len(variations) THEN st
    ELSE LET variant == variations[j]
             variables == VariablesOf(st.df, variant)
             missing == MissingVariables(allVariables, variables)
             population == PopulationOf(st.df, variant)
         IN  FindMissingLoop(
                 AddZeros(st, missing, missingValue, variant, population, 1),
                 variations, allVariables, missingValue, j + 1)

\* _FindMissingVariables(missingValue) of an analyzer whose self.df is
\* selfDf: the frame returned (df) and what self.df holds afterwards.
FindMissingVariables(selfDf, missingValue) ==
    FindMissingLoop([selfDf |-> selfDf, df |-> selfDf, aliased |-> TRUE],
                    UniqueOf(VariationColumn(selfDf)),
                    UniqueOf(VariableColumn(selfDf)),
                    missingValue, 1)

\* missingValue=0, the default every caller uses.
DefaultMissingValue == Rat(0, 1)

\* df.loc[df[variableColumn] == varName, ['p', 'variation', 'population']]
SliceOfAnyVariable(df, varName) ==
    [j \in 1..Len(df) |->
        [p |-> df[j].p, variation |-> df[j].variation,
         population |-> df[j].population]]
SliceOf(df, varName) ==
    LET rows == SelectSeq(df, LAMBDA r : r.variable = varName)
    IN  [j \in 1..Len(rows) |->
            [p |-> rows[j].p, variation |-> rows[j].variation,
             population |-> rows[j].population]]

\* ------------------------------------------------------------------ state

VARIABLES
    df,                  \* self.df, the caller's dataset
    df0,                 \* the dataset as given at construction (history)
    confidenceInterval,  \* self.confidenceInterval
    printSignificance,   \* self.printSignificance
    pc,                  \* "idle", or the analysis whose loop is running
    work,                \* the local df of the running analysis
    workAliased,         \* whether the local df is the object self.df
    variations,          \* the local variations
    allVariables,        \* the local allVariables
    i,                   \* index in allVariables of the category in turn
    sigDone,             \* the significance line of category i was printed
    sigCalls,            \* the calls of SignificanceTest the analysis made
    diffRowsList,        \* the local diffRowsList of ABChangeAnalysis
    absRowsList,         \* the local absRowsList of ABMagnitudeAnalysis
    printed,             \* the lines the current or last call printed
    plotted,             \* what the current or last call gave the renderer
    raised,              \* the error the last call raised, or "none"
    keyOrder,            \* the order in which resultsDic yields its keys
    missingValue,        \* the missingValue of the last _FindMissingVariables
    statDf,              \* a category slice given to a statistic
    statCall,            \* the statistic last called on statDf
    statResult,          \* what it returned
    rsPc,                \* the statement S3ToRedshift is at, "idle" if not run
    fileName,            \* the fileName given to S3ToRedshift
    tableName,           \* the tableName given to S3ToRedshift
    con,                 \* rs.con: "none", "open" or "closed"
    cur,                 \* the cursor of TableFill: "none", "open", "closed"
    exc,                 \* the exception in flight, or "none"
    output,              \* the lines PrintOutput printed
    dbCalls,             \* the calls made to the database driver, in order
    pending,             \* the COPY of the open transaction
    loaded               \* the files committed to their tables

analyzerVars ==
    << df, df0, printSignificance, pc, work, workAliased, variations,
       allVariables, i, sigDone, sigCalls, diffRowsList, absRowsList, printed,
       plotted, raised, keyOrder, missingValue >>
statVars == << statDf, statCall, statResult >>
s3Vars ==
    << rsPc, fileName, tableName, con, cur, exc, output, dbCalls, pending,
       loaded >>
vars == << analyzerVars, confidenceInterval, statVars, s3Vars >>

NoCall == [op |-> "none"]
NoPlot == [kind |-> "none", table |-> << >>]

\* The (p, population) of the rows of a dataset.
DataValues ==
    {[p |-> Rat(1, 4), population |-> 1],
     [p |-> Rat(1, 2), population |-> 1],
     [p |-> Rat(1, 2), population |-> 2]}

RowsOver(variableSet, variationSet, values) ==
    {[variable |-> x, p |-> v.p, variation |-> y, population |-> v.population] :
        x \in variableSet, y \in variationSet, v \in values}

\* One row for a (variable, variation) pair, at most.
OneRowPerPair(d) ==
    \A j, h \in 1..Len(d) :
        (d[j].variable = d[h].variable /\ d[j].variation = d[h].variation)
            => j = h

DatasetsOver(rows) ==
    UNION {{d \in [1..len -> rows] : OneRowPerPair(d)} : len \in 0..MaxRows}

Datasets == DatasetsOver(RowsOver(Variables, Variations, DataValues))

\* k rows for one (variable, variation) pair.
Copies(x, y, k) ==
    [j \in 1..k |->
        [variable |-> x, p |-> Rat(1, j + 1), variation |-> y,
         population |-> j]]

\* Datasets with up to MaxCopies rows for each (variable, variation) pair.
RepeatedDatasets ==
    {Copies("a", "control", c[1]) \o Copies("a", "treatment", c[2])
        \o Copies("b", "control", c[3]) \o Copies("b", "treatment", c[4]) :
            c \in [1..4 -> 0..MaxCopies]}

\* The orders in which "for variation in resultsDic" may visit the keys of
\* a dict: a dict built from the same keys in the same order yields them in
\* the same order every time, which order is the interpreter's.
OrdersOf(S) ==
    {o \in [1..Cardinality(S) -> S] :
        \A j, h \in 1..Cardinality(S) : o[j] = o[h] => j = h}

\* --------------------------------------------------------- the analyzer

StatIdle ==
    /\ statDf = << >>
    /\ statCall = NoCall
    /\ statResult = NoCall

\* S3ToRedshift is not run.
S3Idle ==
    /\ rsPc = "idle"
    /\ fileName = ""
    /\ tableName = ""
    /\ con = "none"
    /\ cur = "none"
    /\ exc = "none"
    /\ output = << >>
    /\ dbCalls = << >>
    /\ pending = {}
    /\ loaded = {}

\* ABAnalyzer(df, confidenceInterval, variableColumn, printSignificance)
Init ==
    /\ df \in Datasets \cup RepeatedDatasets
    /\ df0 = df
    /\ confidenceInterval = Rat(19, 20)
    /\ printSignificance \in BOOLEAN
    /\ pc = "idle"
    /\ work = << >>
    /\ workAliased = FALSE
    /\ variations = << >>
    /\ allVariables = << >>
    /\ i = 0
    /\ sigDone = FALSE
    /\ sigCalls = 0
    /\ diffRowsList = << >>
    /\ absRowsList = << >>
    /\ printed = << >>
    /\ plotted = NoPlot
    /\ raised = "none"
    /\ keyOrder = << >>
    /\ missingValue = DefaultMissingValue
    /\ StatIdle
    /\ S3Idle

\* The statements of an analysis up to its loop: the locals variations and
\* allVariables are read from self.df, then df = self._FindMissingVariables().
\* The locals of the call before are gone.
EnterAnalysis(name) ==
    LET st == FindMissingVariables(df, DefaultMissingValue)
    IN  /\ pc = "idle"
        /\ pc' = name
        /\ missingValue' = DefaultMissingValue
        /\ variations' = UniqueOf(VariationColumn(df))
        /\ allVariables' = UniqueOf(VariableColumn(df))
        /\ df' = st.selfDf
        /\ work' = st.df
        /\ workAliased' = st.aliased
        /\ i' = 1
        /\ sigDone' = FALSE
        /\ sigCalls' = 0
        /\ printed' = << >>
        /\ plotted' = NoPlot
        /\ raised' = "none"
        /\ UNCHANGED << df0, confidenceInterval, printSignificance, statVars,
                        s3Vars >>

\* An exception leaves the analysis: nothing is rendered. The rows appended
\* before it stay in the list the call was building.
RaiseAndGoOn(err) ==
    /\ raised' = err
    /\ i' = i + 1
    /\ sigDone' = FALSE
    /\ UNCHANGED << pc, diffRowsList, absRowsList, printed, plotted >>
Raise(err) ==
    /\ raised' = err
    /\ pc' = "idle"
    /\ UNCHANGED << i, sigDone, diffRowsList, absRowsList, printed, plotted >>

LoopFrame ==
    UNCHANGED << df, df0, confidenceInterval, printSignificance, work,
                 workAliased, variations, allVariables, keyOrder,
                 missingValue, statVars, s3Vars >>

\* ABChangeAnalysis, to the start of its loop.
ChangeBegin ==
    /\ EnterAnalysis("change")
    /\ diffRowsList' = << >>
    /\ absRowsList' = << >>
    /\ keyOrder' = << >>

\* if self.printSignificance:
SignificanceWantedAlways == TRUE
SignificanceWanted == printSignificance

\* ABChangeAnalysis, one category: the significance line.
ChangeSignificance ==
    /\ pc = "change"
    /\ i <= Len(allVariables)
    /\ SignificanceWanted
    /\ ~sigDone
    /\ sigCalls' = sigCalls + 1
    /\ LET varName == allVariables[i]
           significance == SignificanceTest(SliceOf(work, varName), TRUE)
       IN  IF significance.err # "none"
           THEN Raise(significance.err)
           ELSE /\ printed' = Append(printed, [variable |-> varName,
                                               significance |-> significance.value])
                /\ sigDone' = TRUE
                /\ UNCHANGED << pc, i, diffRowsList, absRowsList, plotted,
                                raised >>
    /\ LoopFrame

\* ABChangeAnalysis, one category: its difference row. pHat[0] of an empty
\* array raises IndexError.
ChangeDifference ==
    /\ pc = "change"
    /\ i <= Len(allVariables)
    /\ SignificanceWanted => sigDone
    /\ UNCHANGED sigCalls
    /\ LET varName == allVariables[i]
           est == DifferenceMeansAndCIs(SliceOf(work, varName), variations,
                                        confidenceInterval)
       IN  IF est.err # "none"
           THEN Raise(est.err)
           ELSE IF est.len = 0
           THEN Raise("IndexError")
           ELSE /\ diffRowsList' =
                       Append(diffRowsList,
                              [variable |-> varName, mean |-> est.pDiff,
                               confidence_interval |-> est.ci])
                /\ i' = i + 1
                /\ sigDone' = FALSE
                /\ UNCHANGED << pc, absRowsList, printed, plotted, raised >>
    /\ LoopFrame

\* ABChangeAnalysis, after its loop: self.plot.CIPlot(df, title, 'Difference')
ChangeRender ==
    /\ pc = "change"
    /\ i > Len(allVariables)
    /\ plotted' = [kind |-> "Difference", table |-> diffRowsList]
    /\ pc' = "idle"
    /\ UNCHANGED << i, sigDone, diffRowsList, absRowsList, printed, raised >>
    /\ UNCHANGED sigCalls
    /\ LoopFrame

\* ABMagnitudeAnalysis, to the start of its loop.
MagnitudeBegin ==
    /\ EnterAnalysis("magnitude")
    /\ absRowsList' = << >>
    /\ diffRowsList' = << >>
    /\ keyOrder' \in OrdersOf(SetOf(UniqueOf(VariationColumn(df))))

\* ABMagnitudeAnalysis, one category: a row for each key of resultsDic, in
\* the dict's order.
MagnitudeCategory ==
    /\ pc = "magnitude"
    /\ i <= Len(allVariables)
    /\ LET varName == allVariables[i]
           res == MeansAndCIs(SliceOf(work, varName), variations,
                              confidenceInterval)
       IN  IF res.err # "none"
           THEN Raise(res.err)
           ELSE /\ absRowsList' =
                       absRowsList \o
                       [j \in 1..Len(keyOrder) |->
                           [variation |-> keyOrder[j], variable |-> varName,
                            mean |-> res.estimatesDic[keyOrder[j]].p,
                            confidence_interval |->
                                res.estimatesDic[keyOrder[j]].ci]]
                /\ i' = i + 1
                /\ UNCHANGED << pc, sigDone, diffRowsList, printed, plotted,
                                raised >>
    /\ UNCHANGED sigCalls
    /\ LoopFrame

\* ABMagnitudeAnalysis, after its loop:
\* self.plot.ComparisonCIPlot(df, title, 'Magnitude')
MagnitudeRender ==
    /\ pc = "magnitude"
    /\ i > Len(allVariables)
    /\ plotted' = [kind |-> "Magnitude", table |-> absRowsList]
    /\ pc' = "idle"
    /\ UNCHANGED << i, sigDone, diffRowsList, absRowsList, printed, raised >>
    /\ UNCHANGED sigCalls
    /\ LoopFrame

Next ==
    \/ ChangeBegin
    \/ ChangeSignificance
    \/ ChangeDifference
    \/ ChangeRender
    \/ MagnitudeBegin
    \/ MagnitudeCategory
    \/ MagnitudeRender

Spec == Init /\ [][Next]_vars

\* ------------------------------------------- _FindMissingVariables alone
\* The normalization applied to datasets of three variables and three
\* variations, with the default missingValue and with another.

NormVariables == Variables \cup {"c"}
NormVariations == Variations \cup {"holdout"}
NormValues ==
    {[p |-> Rat(1, 2), population |-> 1], [p |-> Rat(1, 2), population |-> 2]}
MissingValues == {DefaultMissingValue, Rat(1, 4)}

NormInit ==
    /\ df \in DatasetsOver(RowsOver(NormVariables, NormVariations, NormValues))
    /\ df0 = df
    /\ confidenceInterval = Rat(19, 20)
    /\ printSignificance = FALSE
    /\ pc = "idle"
    /\ work = << >>
    /\ workAliased = FALSE
    /\ variations = << >>
    /\ allVariables = << >>
    /\ i = 0
    /\ sigDone = FALSE
    /\ sigCalls = 0
    /\ diffRowsList = << >>
    /\ absRowsList = << >>
    /\ printed = << >>
    /\ plotted = NoPlot
    /\ raised = "none"
    /\ keyOrder = << >>
    /\ missingValue = DefaultMissingValue
    /\ StatIdle
    /\ S3Idle

\* df = self._FindMissingVariables(missingValue)
Normalize ==
    /\ pc = "idle"
    /\ \E value \in MissingValues :
          LET st == FindMissingVariables(df, value)
          IN  /\ missingValue' = value
              /\ df' = st.selfDf
              /\ work' = st.df
              /\ workAliased' = st.aliased
    /\ pc' = "normalized"
    /\ UNCHANGED << df0, confidenceInterval, printSignificance, variations,
                    allVariables, i, sigDone, sigCalls, diffRowsList,
                    absRowsList, printed, plotted, raised, keyOrder, statVars,
                    s3Vars >>

NormNext == Normalize

SpecNorm == NormInit /\ [][NormNext]_vars

\* ------------------------------------------------- the statistics alone
\* SignificanceTest, DifferenceMeansAndCIs and MeansAndCIs applied to one
\* category slice by an analyzer of some confidence level.

SliceVariations == Variations \cup {"holdout"}
SliceProbabilities == {Rat(0, 1), Rat(1, 4), Rat(1, 2), Rat(1, 1)}

SliceRows ==
    [p : SliceProbabilities, variation : SliceVariations,
     population : 0..MaxPop]

\* The rows of the slices of three variations: probabilities strictly
\* between 0 and 1, positive populations.
SliceRowsOfThree ==
    [p : {Rat(1, 4), Rat(1, 2)}, variation : SliceVariations,
     population : 1..MaxPop]

SlicesOver(rows, len) ==
    {d \in [1..len -> rows] :
        \A j, h \in 1..len : d[j].variation = d[h].variation => j = h}

\* The slices of one to three variations, one row for each.
Slices ==
    SlicesOver(SliceRows, 1) \cup SlicesOver(SliceRows, 2)
        \cup SlicesOver(SliceRowsOfThree, 3)

AnalyzerIdle ==
    /\ df = << >>
    /\ df0 = << >>
    /\ printSignificance = FALSE
    /\ pc = "idle"
    /\ work = << >>
    /\ workAliased = FALSE
    /\ variations = << >>
    /\ allVariables = << >>
    /\ i = 0
    /\ sigDone = FALSE
    /\ sigCalls = 0
    /\ diffRowsList = << >>
    /\ absRowsList = << >>
    /\ printed = << >>
    /\ plotted = NoPlot
    /\ raised = "none"
    /\ keyOrder = << >>
    /\ missingValue = DefaultMissingValue

StatInit ==
    /\ statDf \in Slices
    /\ confidenceInterval \in ConfidenceLevels
    /\ statCall = NoCall
    /\ statResult = NoCall
    /\ AnalyzerIdle
    /\ S3Idle

StatFrame == UNCHANGED << analyzerVars, confidenceInterval, statDf, s3Vars >>

\* self.SignificanceTest(varDf, twoSided)
CallSignificanceTest ==
    /\ statCall = NoCall
    /\ \E twoSided \in BOOLEAN :
          /\ statCall' = [op |-> "SignificanceTest", twoSided |-> twoSided,
                          variations |-> << >>]
          /\ statResult' = SignificanceTest(statDf, twoSided)
    /\ StatFrame

\* self.DifferenceMeansAndCIs(df, variations), variations the names of the
\* slice's variations in the order of the dataset.
CallDifferenceMeansAndCIs ==
    /\ statCall = NoCall
    /\ \E order \in OrdersOf(SetOf(VariationColumn(statDf))) :
          /\ statCall' = [op |-> "DifferenceMeansAndCIs", twoSided |-> FALSE,
                          variations |-> order]
          /\ statResult' = DifferenceMeansAndCIs(statDf, order,
                                                 confidenceInterval)
    /\ StatFrame

\* self.MeansAndCIs(df, variations)
CallMeansAndCIs ==
    /\ statCall = NoCall
    /\ LET names == UniqueOf(VariationColumn(statDf))
       IN  /\ statCall' = [op |-> "MeansAndCIs", twoSided |-> FALSE,
                           variations |-> names]
           /\ statResult' = MeansAndCIs(statDf, names, confidenceInterval)
    /\ StatFrame

\* The caller is done with the value returned.
StatReturn ==
    /\ statCall # NoCall
    /\ statCall' = NoCall
    /\ statResult' = NoCall
    /\ StatFrame

StatNext ==
    \/ CallSignificanceTest
    \/ CallDifferenceMeansAndCIs
    \/ CallMeansAndCIs
    \/ StatReturn

SpecStat == StatInit /\ [][StatNext]_vars

\* ------------------------------------------------------------ S3ToRedshift
\* One run of S3ToRedshift(config, fileName, tableName), statement by
\* statement. A call to the database driver (connect, cursor, execute,
\* commit, close) returns or raises an exception; which, is the database's
\* choice.

TableNames == {"events", "users"}
FileNames == {"events_2032-01-01.txt.gz", "users_2032-01-01.txt.gz"}

\* The lines PrintOutput prints.
Line(text) == [line |-> text, table |-> tableName]
ErrorLine(e) == [line |-> "ERROR", error |-> e]

\* A call made to the driver and whether it returned (ok) or raised.
Call(name, ok) == [call |-> name, ok |-> ok]

\* python S3ToRedshift.py --configFileName ... --tableName ... --fileName ...
S3Init ==
    /\ rsPc = "S3ToRS"
    /\ fileName \in FileNames
    /\ tableName \in TableNames
    /\ con = "none"
    /\ cur = "none"
    /\ exc = "none"
    /\ output = << >>
    /\ dbCalls = << >>
    /\ pending = {}
    /\ loaded = {}
    /\ AnalyzerIdle
    /\ confidenceInterval = Rat(19, 20)
    /\ StatIdle

S3Frame == UNCHANGED << analyzerVars, confidenceInterval, statVars, fileName,
                        tableName >>

\* rs = S3ToRS(...): psycopg2.connect. When it raises, the constructor's
\* handler adds a str and a datetime, a TypeError that leaves S3ToRedshift
\* before its try: there is no object and no connection.
S3ToRS ==
    /\ rsPc = "S3ToRS"
    /\ \E ok \in BOOLEAN :
          /\ dbCalls' = Append(dbCalls, Call("connect", ok))
          /\ IF ok
             THEN con' = "open" /\ rsPc' = "TableFill" /\ exc' = exc
             ELSE con' = con /\ rsPc' = "raised" /\ exc' = "TypeError"
    /\ UNCHANGED << cur, output, pending, loaded >>
    /\ S3Frame

\* TableFill, up to its try: cur = con.cursor() and the COPY command. An
\* exception here leaves TableFill for the handler of S3ToRedshift.
TableFillCursor ==
    /\ rsPc = "TableFill"
    /\ \E ok \in BOOLEAN :
          /\ dbCalls' = Append(dbCalls, Call("cursor", ok))
          /\ IF ok
             THEN cur' = "open" /\ rsPc' = "execute" /\ exc' = exc
             ELSE cur' = cur /\ rsPc' = "except" /\ exc' = "cursor"
    /\ UNCHANGED << con, output, pending, loaded >>
    /\ S3Frame

\* cur.execute(pgCommand)
TableFillExecute ==
    /\ rsPc = "execute"
    /\ \E ok \in BOOLEAN :
          /\ dbCalls' = Append(dbCalls, Call("execute", ok))
          /\ IF ok
             THEN /\ pending' = {[table |-> tableName, file |-> fileName]}
                  /\ rsPc' = "commit"
                  /\ exc' = exc
             ELSE /\ pending' = pending
                  /\ rsPc' = "TableFill.except"
                  /\ exc' = "execute"
    /\ UNCHANGED << con, cur, output, loaded >>
    /\ S3Frame

\* con.commit()
TableFillCommit ==
    /\ rsPc = "commit"
    /\ \E ok \in BOOLEAN :
          /\ dbCalls' = Append(dbCalls, Call("commit", ok))
          /\ IF ok
             THEN /\ loaded' = loaded \cup pending
                  /\ pending' = {}
                  /\ rsPc' = "Filled"
                  /\ exc' = exc
             ELSE /\ loaded' = loaded
                  /\ pending' = pending
                  /\ rsPc' = "TableFill.except"
                  /\ exc' = "commit"
    /\ UNCHANGED << con, cur, output >>
    /\ S3Frame

\* self.PrintOutput('Filled ' + tableName)
TableFillFilled ==
    /\ rsPc = "Filled"
    /\ output' = Append(output, Line("Filled"))
    /\ rsPc' = "cur.close"
    /\ UNCHANGED << con, cur, exc, dbCalls, pending, loaded >>
    /\ S3Frame

\* except Exception as err: of TableFill. The exception ends here.
TableFillExcept ==
    /\ rsPc = "TableFill.except"
    /\ output' = output \o << Line("Did not fill"), ErrorLine(exc) >>
    /\ exc' = "none"
    /\ rsPc' = "cur.close"
    /\ UNCHANGED << con, cur, dbCalls, pending, loaded >>
    /\ S3Frame

\* cur.close(), after which TableFill returns; an exception leaves TableFill
\* for the handler of S3ToRedshift.
TableFillCursorClose ==
    /\ rsPc = "cur.close"
    /\ \E ok \in BOOLEAN :
          /\ dbCalls' = Append(dbCalls, Call("cur.close", ok))
          /\ IF ok
             THEN cur' = "closed" /\ rsPc' = "filled successfully" /\ exc' = exc
             ELSE cur' = cur /\ rsPc' = "except" /\ exc' = "cur.close"
    /\ UNCHANGED << con, output, pending, loaded >>
    /\ S3Frame

\* PrintOutput(tableName + ' filled successfully.')
FilledSuccessfully ==
    /\ rsPc = "filled successfully"
    /\ output' = Append(output, Line("filled successfully."))
    /\ rsPc' = "CloseConnection"
    /\ UNCHANGED << con, cur, exc, dbCalls, pending, loaded >>
    /\ S3Frame

\* except Exception as err: of S3ToRedshift.
UpdateFailedThenReturn ==
    /\ rsPc = "except"
    /\ output' = output \o << Line("update failed."), ErrorLine(exc) >>
    /\ exc' = "none"
    /\ rsPc' = "returned"
    /\ UNCHANGED << con, cur, dbCalls, pending, loaded >>
    /\ S3Frame
UpdateFailed ==
    /\ rsPc = "except"
    /\ output' = output \o << Line("update failed."), ErrorLine(exc) >>
    /\ exc' = "none"
    /\ rsPc' = "CloseConnection"
    /\ UNCHANGED << con, cur, dbCalls, pending, loaded >>
    /\ S3Frame

\* rs.CloseConnection(): self.con.close(), which drops what was not
\* committed. An exception of close leaves S3ToRedshift, the connection
\* closed or not.
CloseConnection ==
    /\ rsPc = "CloseConnection"
    /\ \E ok \in BOOLEAN :
          /\ dbCalls' = Append(dbCalls, Call("close", ok))
          /\ IF ok
             THEN /\ con' = "closed"
                  /\ pending' = {}
                  /\ rsPc' = "returned"
                  /\ exc' = exc
             ELSE /\ con' \in {con, "closed"}
                  /\ pending' = IF con' = "closed" THEN {} ELSE pending
                  /\ rsPc' = "raised"
                  /\ exc' = "close"
    /\ UNCHANGED << cur, output, loaded >>
    /\ S3Frame

S3Next ==
    \/ S3ToRS
    \/ TableFillCursor
    \/ TableFillExecute
    \/ TableFillCommit
    \/ TableFillFilled
    \/ TableFillExcept
    \/ TableFillCursorClose
    \/ FilledSuccessfully
    \/ UpdateFailed
    \/ CloseConnection

SpecS3 == S3Init /\ [][S3Next]_vars


\* ------------------------------------------------------------- properties

HasPair(d, x, y) ==
    \E j \in 1..Len(d) : d[j].variable = x /\ d[j].variation = y

\* The rows a normalization appended: those after the rows of the dataset.
Synthesized == (Len(df0) + 1)..Len(work)

\* C1: normalization is idempotent: applied to the dataset it returned, with
\* the same missingValue, _FindMissingVariables appends no row and returns
\* the same dataset.
C1_NormalizeIdempotent ==
    pc = "normalized" =>
        FindMissingVariables(work, missingValue).df = work

\* A normalization that appended rows for two variations.
C1_Witness ==
    /\ pc = "normalized"
    /\ \E j, h \in Synthesized : work[j].variation # work[h].variation

\* C2: after normalization the working dataset has a row for every pair of a
\* category and a variation of the dataset, and the slice of the category in
\* turn in an analysis loop has a row for each variation.
C2_EveryPairHasRow ==
    pc \in {"change", "magnitude"} =>
        /\ \A x \in SetOf(VariableColumn(df0)) :
              \A y \in SetOf(VariationColumn(df0)) : HasPair(work, x, y)
        /\ i <= Len(allVariables) =>
              \A y \in SetOf(variations) :
                  HasRow(SliceOf(work, allVariables[i]), y)

\* The loop of an analysis at its second category, whose slice holds a row
\* that normalization filled in.
C2_Witness ==
    /\ pc \in {"change", "magnitude"}
    /\ i = 2
    /\ \E j \in Synthesized : work[j].variable = allVariables[i]

\* C3: a row synthesized for a variation v and a category has the fill value
\* as its probability and, as its population, the largest population of the
\* rows v had in the input dataset, which had no row for the pair; the rows
\* of the input come first, unchanged.
C3_SynthesizedRows ==
    pc = "normalized" =>
        /\ SubSeq(work, 1, Len(df0)) = df0
        /\ \A j \in Synthesized :
              /\ work[j].p = missingValue
              /\ ~HasPair(df0, work[j].variable, work[j].variation)
              /\ work[j].population =
                     MaxOf({df0[h].population :
                               h \in {g \in 1..Len(df0) :
                                         df0[g].variation = work[j].variation}})

\* A row synthesized, with a fill value other than the default, for a
\* variation whose input rows differ in population, after rows were
\* synthesized for another variation.
C3_Witness ==
    /\ pc = "normalized"
    /\ missingValue # DefaultMissingValue
    /\ \E j \in Synthesized :
          /\ \E g, h \in 1..Len(df0) :
                /\ df0[g].variation = work[j].variation
                /\ df0[h].variation = work[j].variation
                /\ df0[g].population # df0[h].population
          /\ \E h \in Synthesized :
                /\ h < j
                /\ work[h].variation # work[j].variation

Pairwise == statCall.op \in {"SignificanceTest", "DifferenceMeansAndCIs"}

\* A slice of exactly two variations, both with a positive population.
TwoPositive ==
    /\ Len(statDf) = 2
    /\ \A j \in 1..2 : statDf[j].population > 0

\* The rows of the slice in the other order: the second variation first.
Swapped(d) == << d[2], d[1] >>

InUnitInterval(x) == x.k = "fin" /\ 0 <= x.n /\ x.n <= x.d

\* C5: a pairwise comparison of two variations, one of them with population
\* 0, signals DegenerateInputError.
C5_DegenerateInputSignalled ==
    (/\ Pairwise
     /\ Len(statDf) = 2
     /\ \E j \in 1..2 : statDf[j].population = 0)
        => statResult.err = "DegenerateInputError"

\* C6: a pairwise comparison on a slice of more than two variations (here
\* with positive populations) signals UnsupportedVariationCountError.
C6_VariationCountSignalled ==
    (/\ Pairwise
     /\ Cardinality(SetOf(VariationColumn(statDf))) > 2
     /\ \A j \in 1..Len(statDf) : statDf[j].population > 0)
        => statResult.err = "UnsupportedVariationCountError"

\* C7: SignificanceTest is symmetric in the two variations: with the rows
\* of the slice in the other order it computes the same pooled rate, pooled
\* standard error and z, and returns the same significance, one-sided and
\* two-sided.
C7_SignificanceSymmetric ==
    (statCall.op = "SignificanceTest" /\ TwoPositive) =>
        /\ statResult = SignificanceTest(Swapped(statDf), statCall.twoSided)
        /\ SignificanceLocals(Swapped(statDf), statCall.twoSided)
               = SignificanceLocals(statDf, statCall.twoSided)

\* A significance strictly between 0 and 1, of two variations that differ in
\* probability and in population.
C7_Witness ==
    /\ statCall.op = "SignificanceTest"
    /\ TwoPositive
    /\ statDf[1].p # statDf[2].p
    /\ statDf[1].population # statDf[2].population
    /\ statResult.err = "none"
    /\ statResult.value.k = "fin"
    /\ 0 < statResult.value.n
    /\ statResult.value.n < statResult.value.d

\* C8: the two-sided significance of a slice is 1 - 2*(1 - s) for its
\* one-sided significance s, and is not greater than s (NaN for a NaN s);
\* the value returned is the one of the twoSided asked for.
C8_TwoSidedLaw ==
    (statCall.op = "SignificanceTest" /\ statResult.err = "none") =>
        LET s == SignificanceTest(statDf, FALSE).value
            t == SignificanceTest(statDf, TRUE).value
        IN  /\ statResult.value = IF statCall.twoSided THEN t ELSE s
            /\ s.k = "fin" =>
                  /\ t = Fin(Rat(s.d - 2 * (s.d - s.n), s.d))
                  /\ RLeq(RatOf(t), RatOf(s))
            /\ s.k # "fin" => t = s

\* A two-sided significance strictly between 0 and 1 and strictly less than
\* the one-sided one.
C8_Witness ==
    /\ statCall.op = "SignificanceTest"
    /\ statCall.twoSided
    /\ statResult.err = "none"
    /\ statResult.value.k = "fin"
    /\ 0 < statResult.value.n
    /\ RLess(RatOf(statResult.value),
             RatOf(SignificanceTest(statDf, FALSE).value))

\* The confidence radius of the call made, at its confidence level and at
\* another.
RadiusAt(confidence) ==
    IF statCall.op = "DifferenceMeansAndCIs"
    THEN DifferenceMeansAndCIs(statDf, statCall.variations, confidence).ci
    ELSE MeanAndCI(statDf, statCall.variations[1], confidence).ci

RadiusReturned ==
    IF statCall.op = "DifferenceMeansAndCIs" THEN statResult.ci
    ELSE statResult.estimatesDic[statCall.variations[1]].ci

RadiusCall ==
    \/ statCall.op = "MeansAndCIs"
    \/ statCall.op = "DifferenceMeansAndCIs" /\ Len(statDf) >= 2

\* The populations the call reads are positive.
RadiusPositive ==
    IF statCall.op = "DifferenceMeansAndCIs"
    THEN \A j \in 1..2 : RowOf(statDf, statCall.variations[j]).population > 0
    ELSE RowOf(statDf, statCall.variations[1]).population > 0

\* C9 as stated: at every higher confidence level the radius is strictly
\* larger, for every input with positive populations, p = 0 and p = 1
\* included.
C9_RadiusStrictlyIncreasing ==
    (RadiusCall /\ RadiusPositive) =>
        \A c \in TabulatedLevels :
            RLess(confidenceInterval, c) =>
                /\ RadiusReturned.k = "fin"
                /\ RadiusAt(c).k = "fin"
                /\ RootLess(RadiusReturned, RadiusAt(c))

\* C9, amended: at every higher confidence level the radius is strictly
\* larger when the standard error is finite and not 0, which with positive
\* populations is when 0 < p < 1 (MeansAndCIs) or the two probabilities are
\* not both 0 or both 1 (DifferenceMeansAndCIs); otherwise the radius is the
\* same at every level: 0 when the standard error is 0, inf or NaN when a
\* population is 0.
C9_RadiusIncreasingUnlessDegenerate ==
    RadiusCall =>
        LET r == RadiusReturned
            first == RowOf(statDf, statCall.variations[1])
            interior ==
                IF statCall.op = "DifferenceMeansAndCIs"
                THEN LET second == RowOf(statDf, statCall.variations[2])
                     IN  ~(first.p = second.p /\ first.p \in {Rat(0, 1), Rat(1, 1)})
                ELSE first.p \notin {Rat(0, 1), Rat(1, 1)}
        IN  /\ r = RadiusAt(confidenceInterval)
            /\ RadiusPositive => r.k = "fin" /\ (r.n > 0 <=> interior)
            /\ ~RadiusPositive => r.k \in {"inf", "nan"}
            /\ \A c \in TabulatedLevels :
                  RLess(confidenceInterval, c) =>
                      IF r.k = "fin" /\ r.n > 0
                      THEN RadiusAt(c).k = "fin" /\ RootLess(r, RadiusAt(c))
                      ELSE RadiusAt(c) = r

\* A radius of a difference of two variations that is finite and not 0, at
\* the lower of the analyzer's confidence levels.
C9_Witness ==
    /\ statCall.op = "DifferenceMeansAndCIs"
    /\ TwoPositive
    /\ confidenceInterval = Rat(9, 10)
    /\ statResult.ci.k = "fin"
    /\ statResult.ci.n > 0
    /\ \E j \in 1..2 : statDf[j].p = Rat(0, 1)

\* C10: SignificanceTest returns a value in [0,1] for a slice of two
\* variations with positive populations, one-sided and two-sided.
C10_SignificanceInUnitInterval ==
    (statCall.op = "SignificanceTest" /\ TwoPositive) =>
        /\ statResult.err = "none"
        /\ InUnitInterval(statResult.value)
\* The categories of the rows of an output table, in order of first
\* appearance.
RowCategories(rows) == UniqueOf([j \in 1..Len(rows) |-> rows[j].variable])

PairProbability(d, x, y) ==
    IF HasPair(d, x, y)
    THEN d[CHOOSE j \in 1..Len(d) :
             /\ d[j].variable = x /\ d[j].variation = y
             /\ \A h \in 1..(j - 1) :
                    ~(d[h].variable = x /\ d[h].variation = y)].p
    ELSE DefaultMissingValue

\* The population of a (category, variation) pair of d: that of its first
\* row, or the largest population of the variation when d has no row for
\* the pair.
PairPopulation(d, x, y) ==
    IF HasPair(d, x, y)
    THEN d[CHOOSE j \in 1..Len(d) :
             /\ d[j].variable = x /\ d[j].variation = y
             /\ \A h \in 1..(j - 1) :
                    ~(d[h].variable = x /\ d[h].variation = y)].population
    ELSE MaxOf({d[j].population : j \in {h \in 1..Len(d) : d[h].variation = y}})

\* The radius of the confidence interval of the difference of a category x
\* between the variations y0 and y1 of d, at the analyzer's confidence level.
DifferenceRadius(d, x, y0, y1) ==
    LET n0 == PairPopulation(d, x, y0)
        n1 == PairPopulation(d, x, y1)
        pHat == PooledRate(PairProbability(d, x, y0), n0,
                           PairProbability(d, x, y1), n1)
    IN  ScaleRoot(NormPpf(TailPoint(confidenceInterval)),
                  Sqrt(PooledVariance(pHat, n0, n1)))

TwoVariationsOneRowPerPair(d) ==
    /\ OneRowPerPair(d)
    /\ Len(UniqueOf(VariationColumn(d))) = 2

\* C12: for a dataset of exactly two variations v0, v1 (in order of first
\* appearance) with at most one row per (category, variation), the table
\* ABChangeAnalysis gives the renderer has exactly one row per category of
\* the dataset, in order of first appearance, and the row of a category is
\* (category, p1 - p0, radius), a pair filled in by normalization counting
\* with the fill value.
C12_DifferenceTable ==
    (plotted.kind = "Difference" /\ TwoVariationsOneRowPerPair(df0)) =>
        LET cats == UniqueOf(VariableColumn(df0))
            vs == UniqueOf(VariationColumn(df0))
        IN  /\ Len(plotted.table) = Len(cats)
            /\ \A j \in 1..Len(cats) :
                  plotted.table[j] =
                      [variable |-> cats[j],
                       mean |-> Fin(RSub(PairProbability(df0, cats[j], vs[2]),
                                         PairProbability(df0, cats[j], vs[1]))),
                       confidence_interval |->
                           DifferenceRadius(df0, cats[j], vs[1], vs[2])]

\* A table of two categories, one of them with a row filled in by
\* normalization and a difference that is not zero.
C12_Witness ==
    /\ plotted.kind = "Difference"
    /\ TwoVariationsOneRowPerPair(df0)
    /\ Len(plotted.table) = 2
    /\ \E j \in 1..2 :
          /\ \E y \in Variations : ~HasPair(df0, plotted.table[j].variable, y)
          /\ plotted.table[j].mean # FInt(0)
    /\ \E j \in 1..2 :
          /\ \A y \in Variations : HasPair(df0, plotted.table[j].variable, y)
          /\ plotted.table[j].mean # FInt(0)

\* C13: the table ABMagnitudeAnalysis gives the renderer has exactly one
\* row for every (category, variation) pair of the dataset, so
\* |categories| x |variations| rows; the rows of a category are contiguous,
\* the categories in order of first appearance; the p of a row is the
\* pair's probability, or the fill value when the dataset had no such row.
C13_MagnitudeTable ==
    plotted.kind = "Magnitude" =>
        LET cats == UniqueOf(VariableColumn(df0))
            vs == UniqueOf(VariationColumn(df0))
            nV == Len(vs)
        IN  /\ Len(plotted.table) = Len(cats) * nV
            /\ \A c \in 1..Len(cats) :
                  /\ \A k \in 1..nV :
                        plotted.table[(c - 1) * nV + k].variable = cats[c]
                  /\ \A y \in SetOf(vs) :
                        \E k \in 1..nV :
                            LET row == plotted.table[(c - 1) * nV + k]
                            IN  /\ row.variation = y
                                /\ row.mean
                                      = Fin(PairProbability(df0, cats[c], y))

\* A table of two categories and two variations with an absent pair, whose
\* rows do not all have the same p.
C13_Witness ==
    /\ plotted.kind = "Magnitude"
    /\ Len(plotted.table) = 4
    /\ \E x \in Variables, y \in Variations : ~HasPair(df0, x, y)
    /\ \E j, h \in 1..4 :
          /\ plotted.table[j].mean # plotted.table[h].mean
          /\ plotted.table[j].mean # Fin(DefaultMissingValue)
          /\ plotted.table[h].mean # Fin(DefaultMissingValue)

\* The categories of the significance lines printed, in order.
PrintedCategories == [j \in 1..Len(printed) |-> printed[j].variable]

\* C14: in ABChangeAnalysis with the significance flag set, the lines
\* printed are one per category, in category order, the line of a category
\* printed before its difference row is appended (so there are as many lines
\* as rows, or one more), and all of them are printed when the renderer is
\* invoked; each line is one call of SignificanceTest. With the flag not set
\* no line is printed and SignificanceTest is not called.
C14_SignificanceLines ==
    /\ ~printSignificance => (printed = << >> /\ sigCalls = 0)
    /\ printSignificance =>
          /\ PrintedCategories
                 = SubSeq(UniqueOf(VariableColumn(df0)), 1, Len(printed))
          /\ Len(diffRowsList) <= Len(printed)
          /\ Len(printed) <= Len(diffRowsList) + 1
          /\ Len(printed) <= sigCalls
          /\ sigCalls <= Len(printed) + 1
          /\ raised = "none" => sigCalls = Len(printed)
          /\ plotted.kind = "Difference" =>
                PrintedCategories = UniqueOf(VariableColumn(df0))

\* The renderer is invoked after the lines of two categories were printed.
C14_Witness ==
    /\ printSignificance
    /\ plotted.kind = "Difference"
    /\ Len(printed) = 2
    /\ sigCalls = 2
    /\ printed[1].variable # printed[2].variable

\* The positions in dbCalls of the calls of one name.
CallsOf(name) == {j \in 1..Len(dbCalls) : dbCalls[j].call = name}

Printed(l) == \E j \in 1..Len(output) : output[j] = l

\* C15: S3ToRedshift prints '<tableName> filled successfully.' only on runs
\* in which the COPY was executed without error and committed: when the
\* line is printed, execute and commit have both returned and the file is
\* loaded into the table.
C15_SuccessLineOnlyAfterCommittedCopy ==
    Printed(Line("filled successfully.")) =>
        /\ \E j \in CallsOf("execute") : dbCalls[j].ok
        /\ \E j \in CallsOf("commit") : dbCalls[j].ok
        /\ [table |-> tableName, file |-> fileName] \in loaded

\* C16: once rs is constructed, a run of S3ToRedshift calls con.close()
\* exactly once: never twice, once when the run has ended, as the last call
\* to the database (TableFill is over) and after the success line or the
\* failure lines were printed, whatever execute and commit did; commit is
\* called only right after an execute that returned, and before the close.
C16_ConnectionClosedOnce ==
    /\ Cardinality(CallsOf("close")) <= 1
    /\ (rsPc \in {"returned", "raised"} /\ con # "none") =>
          Cardinality(CallsOf("close")) = 1
    /\ rsPc = "returned" => con = "closed"
    /\ \A j \in CallsOf("close") :
          /\ j = Len(dbCalls)
          /\ rsPc \in {"returned", "raised"}
          /\ \/ /\ Len(output) >= 1
                /\ output[Len(output)] = Line("filled successfully.")
             \/ /\ Len(output) >= 2
                /\ output[Len(output) - 1] = Line("update failed.")
    /\ \A j \in CallsOf("commit") :
          /\ j > 1
          /\ dbCalls[j - 1] = Call("execute", TRUE)
          /\ \A h \in CallsOf("close") : h > j

\* A run whose COPY failed has returned with the connection closed.
C16_Witness ==
    /\ rsPc = "returned"
    /\ con = "closed"
    /\ Call("execute", FALSE) \in SetOf(dbCalls)
    /\ Printed(Line("Did not fill"))
    /\ Cardinality(CallsOf("close")) = 1

====
